---- MODULE Spec2Model ----
(***************************************************************************)
(* A model of the plain-text pipeline of PageIndex                         *)
(* (src/pageindex/page_index_txt.py): the character windower, the section  *)
(* detector adapter, the section reconciler, the section materializer, the *)
(* tree builder and the summary orchestrator.                              *)
(*                                                                         *)
(* Strings are sequences of one-character strings.  Python lists are       *)
(* sequences, Python dicts are records (an absent key is an absent field). *)
(***************************************************************************)
EXTENDS Integers, Sequences, FiniteSets, TLC

VARIABLES
    text,            \* the document (window_text_with_overlap / txt_to_tree argument)
    window_size,     \* window_size argument
    overlap,         \* overlap argument
    wpc,             \* position inside window_text_with_overlap
    start,           \* local `start` of the windowing loop
    windows,         \* local `windows` of the windowing loop
    pc,              \* position inside txt_to_tree
    opt,             \* the other arguments of txt_to_tree (a record, one field each)
    chunks,          \* detect_semantic_sections: chunks
    chunk_idx,       \* detect_semantic_sections: index of the next chunk
    current_char_offset, \* detect_semantic_sections: current_char_offset
    all_sections,    \* detect_semantic_sections: all_sections
    oracle_calls,    \* the calls of ChatGPT_API_async so far: the chunk in the prompt,
                     \* whether the response parsed to a list, and how many of
                     \* its sections carried both offsets
    sections,        \* txt_to_tree: sections
    nodes_with_content, \* txt_to_tree: nodes_with_content
    tree,            \* the node dicts of the tree, by object
    tree_structure,  \* txt_to_tree: tree_structure (the list of root objects)
    nodes,           \* generate_summaries_for_txt_structure: nodes
    tasks,           \* the state of each coroutine handed to asyncio.gather
    summaries,       \* the result of each coroutine
    widx,            \* iterations done of the loop over zip(nodes, summaries)
    summarizer_calls, \* per coroutine, the calls of generate_node_summary
    writes,          \* per object, the assignments to summary / prefix_summary
    result           \* what txt_to_tree returns (without the structure)

wvars == <<wpc, start, windows>>
cfgvars == <<text, window_size, overlap>>
detvars == <<chunks, chunk_idx, current_char_offset, all_sections, oracle_calls>>
sumvars == <<nodes, tasks, summaries, widx, summarizer_calls, writes>>
treevars == <<tree, tree_structure, sumvars, result>>
pipevars == <<pc, opt, detvars, sections, nodes_with_content, treevars>>
vars == <<cfgvars, wvars, pipevars>>

(***************************************************************************)
(* Bounds of the model.                                                    *)
(***************************************************************************)
MaxTextLen == 5         \* short documents: every string up to this length
MaxWindowSize == 3      \* small window sizes 1..MaxWindowSize
MaxOverlap == 2         \* overlaps -1..MaxOverlap
MaxWindows == 4         \* windows emitted before the model stops following the loop
LongLen == 420          \* length of the long documents
LongWindow == 250       \* the window size above the sentence look-back
LongOverlap == 60       \* an overlap used with LongWindow

(***************************************************************************)
(* Characters and Python string primitives.                                *)
(***************************************************************************)
Alphabet == {".", " ", "a"}

\* the character class [.!?] of the sentence pattern
IsTerminator(c) == c \in {".", "!", "?"}

\* the character class \s of the sentence pattern; also what str.strip() removes
IsSpace(c) == c \in {" ", "\t", "\n", "\r"}

Min(a, b) == IF a <= b THEN a ELSE b
Max(a, b) == IF a >= b THEN a ELSE b

\* a slice index as Python clamps it: negative indices count from the end
SliceIndex(i, n) ==
    IF i < 0 THEN (IF i + n < 0 THEN 0 ELSE i + n)
    ELSE IF i > n THEN n ELSE i

\* s[a:b] with 0-based, end-exclusive Python indices
PySlice(s, a, b) ==
    LET lo == SliceIndex(a, Len(s))
        hi == SliceIndex(b, Len(s))
    IN  IF lo >= hi THEN <<>> ELSE SubSeq(s, lo + 1, hi)

\* the 1-based position where the whitespace run that starts at j ends
RECURSIVE SpaceRunEnd(_, _)
SpaceRunEnd(s, j) ==
    IF j < Len(s) /\ IsSpace(s[j + 1]) THEN SpaceRunEnd(s, j + 1) ELSE j

\* [m.end() for m in re.finditer(r'[.!?]\s+', s)] as a set: a match starts at
\* every terminator that is followed by whitespace and takes the whole run
\* (m.end() is 0-based exclusive, which is the 1-based position of the last
\* matched character)
sentence_endings(s) ==
    { SpaceRunEnd(s, i + 1) :
        i \in { k \in 1..(Len(s) - 1) : IsTerminator(s[k]) /\ IsSpace(s[k + 1]) } }

SetMax(S) == CHOOSE x \in S : \A y \in S : y <= x

\* the look-back of the sentence search, in characters
SENTENCE_LOOKBACK == 200

(***************************************************************************)
(* window_text_with_overlap: one iteration of the loop computes `end`.     *)
(***************************************************************************)
WindowEnd(t, ws, st) ==
    LET end0 == Min(st + ws, Len(t))
    IN  IF end0 < Len(t)
        THEN LET search_start == Max(end0 - SENTENCE_LOOKBACK, st)
                 ends == sentence_endings(PySlice(t, search_start, end0))
             IN  IF ends # {} THEN search_start + SetMax(ends) ELSE end0
        ELSE end0

Window(t, st, en) == [text |-> PySlice(t, st, en), start |-> st, end |-> en]

\* the loop of lines 108-129 from `start` = st, followed for at most fuel windows
RECURSIVE WindowLoop(_, _, _, _, _)
WindowLoop(t, ws, ov, st, fuel) ==
    IF st >= Len(t) \/ fuel = 0 THEN <<>>
    ELSE LET end == WindowEnd(t, ws, st)
         IN  << Window(t, st, end) >>
             \o (IF end >= Len(t) THEN <<>> ELSE WindowLoop(t, ws, ov, end - ov, fuel - 1))

\* len(text) <= window_size: the single window
WindowSingle ==
    /\ wpc = "call"
    /\ Len(text) <= window_size
    /\ windows' = << Window(text, 0, Len(text)) >>
    /\ wpc' = "done"
    /\ UNCHANGED <<start, cfgvars, pipevars>>

\* otherwise: windows = [], start = 0
WindowEnter ==
    /\ wpc = "call"
    /\ Len(text) > window_size
    /\ windows' = <<>>
    /\ start' = 0
    /\ wpc' = "loop"
    /\ UNCHANGED <<cfgvars, pipevars>>

\* one iteration of `while start < len(text)`
WindowIterate ==
    /\ wpc = "loop"
    /\ start < Len(text)
    /\ Len(windows) < MaxWindows
    /\ LET end == WindowEnd(text, window_size, start)
       IN  /\ windows' = Append(windows, Window(text, start, end))
           /\ IF end >= Len(text)
              THEN wpc' = "done" /\ start' = start
              ELSE wpc' = "loop" /\ start' = end - overlap
    /\ UNCHANGED <<cfgvars, pipevars>>

\* the loop condition fails
WindowLoopExit ==
    /\ wpc = "loop"
    /\ start >= Len(text)
    /\ wpc' = "done"
    /\ UNCHANGED <<start, windows, cfgvars, pipevars>>

(***************************************************************************)
(* Python dict and list helpers.                                           *)
(***************************************************************************)
\* key in d
Has(d, k) == k \in DOMAIN d

\* d.get(k, default)
Get(d, k, default) == IF k \in DOMAIN d THEN d[k] ELSE default

\* d[k] = v (the key is added when absent)
SetKey(d, k, v) == [ x \in (DOMAIN d) \cup {k} |-> IF x = k THEN v ELSE d[x] ]

\* {key: d[key] for key in order if key in d}
reorder_dict(d, order) == [ x \in (DOMAIN d) \cap order |-> d[x] ]

\* str.strip(): surrounding whitespace removed
RECURSIVE LStrip(_)
LStrip(s) == IF Len(s) > 0 /\ IsSpace(s[1]) THEN LStrip(Tail(s)) ELSE s

RECURSIVE RStrip(_)
RStrip(s) ==
    IF Len(s) > 0 /\ IsSpace(s[Len(s)]) THEN RStrip(SubSeq(s, 1, Len(s) - 1)) ELSE s

Strip(s) == RStrip(LStrip(s))

\* the sequences over S of length 0..n
RECURSIVE SeqsUpTo(_, _)
SeqsUpTo(S, n) ==
    IF n = 0 THEN { <<>> }
    ELSE LET shorter == SeqsUpTo(S, n - 1)
         IN  shorter \cup { Append(q, x) : q \in { r \in shorter : Len(r) = n - 1 }, x \in S }

(***************************************************************************)
(* External collaborators (pageindex/utils.py): the token counter and the  *)
(* token-bounded splitter.                                                 *)
(***************************************************************************)
\* count_tokens(text, model): here one token per character
count_tokens(t) == Len(t)

\* the overlap_tokens argument detect_semantic_sections passes to the splitter
OVERLAP_TOKENS == 500

\* split_text_into_chunks(text, max_tokens, model, overlap_tokens): the text when
\* it fits, else chunks of max_tokens tokens, each starting overlap_tokens
\* tokens before the end of the previous one
RECURSIVE ChunksFrom(_, _, _, _)
ChunksFrom(t, max_tokens, overlap_tokens, from) ==
    LET to == Min(from + max_tokens, Len(t))
    IN  IF to >= Len(t) THEN << PySlice(t, from, to) >>
        ELSE << PySlice(t, from, to) >>
             \o ChunksFrom(t, max_tokens, overlap_tokens, to - overlap_tokens)

split_text_into_chunks(t, max_tokens, overlap_tokens) ==
    IF count_tokens(t) <= max_tokens THEN << t >>
    ELSE ChunksFrom(t, max_tokens, overlap_tokens, 0)

(***************************************************************************)
(* detect_semantic_sections.                                               *)
(***************************************************************************)
MaxSections == 2        \* sections the oracle reports for one document
OracleLevels == {1, 2}
Titles == {"A", "B"}

\* offsets the oracle reports inside a chunk: valid positions of the chunk
OracleOffsets(chunk) == {0, Len(chunk) \div 2, Len(chunk)}

\* the section dicts of an oracle answer for a chunk: spans inside the chunk
\* (non-empty unless the chunk is empty); three more dicts lack a key
OracleSections(chunk) ==
    { r \in [ title : {"A"}, level : OracleLevels,
              char_start : OracleOffsets(chunk), char_end : OracleOffsets(chunk) ] :
        /\ r.char_start <= r.char_end
        /\ r.char_start < r.char_end \/ Len(chunk) = 0 }
    \cup { [ title |-> "A", level |-> 1, char_start |-> 0 ],
           [ title |-> "A", char_start |-> 0, char_end |-> Len(chunk) ],
           [ level |-> 1, char_start |-> 0, char_end |-> Len(chunk) ] }

\* extract_json(response): what the oracle's answer parses to; is_list is FALSE
\* for an unparsable answer and for JSON that is not an array
OracleAnswers(chunk, room) ==
    { [ is_list |-> FALSE, items |-> <<>> ] }
    \cup { [ is_list |-> TRUE, items |-> q ] : q \in SeqsUpTo(OracleSections(chunk), room) }

\* the sections of an answer that carry both char_start and char_end
UsableCount(items) ==
    Cardinality({ i \in 1..Len(items) :
                    "char_start" \in DOMAIN items[i] /\ "char_end" \in DOMAIN items[i] })

\* lines 66-71: the sections of one answer that carry both offsets, translated
\* by current_char_offset and tagged with the chunk index
RECURSIVE AdjustSections(_, _, _)
AdjustSections(items, offset, idx) ==
    IF items = <<>> THEN <<>>
    ELSE LET section == Head(items)
             rest == AdjustSections(Tail(items), offset, idx)
         IN  IF Has(section, "char_start") /\ Has(section, "char_end")
             THEN << SetKey([ section EXCEPT !.char_start = @ + offset,
                                             !.char_end = @ + offset ],
                            "chunk_idx", idx) >> \o rest
             ELSE rest

\* lines 17-23
DetectEnter ==
    /\ pc = "detect_call"
    /\ chunks' = IF opt.max_input_tokens # 0
                 THEN split_text_into_chunks(text, opt.max_input_tokens, OVERLAP_TOKENS)
                 ELSE << text >>
    /\ all_sections' = <<>>
    /\ current_char_offset' = 0
    /\ chunk_idx' = 0
    /\ pc' = "detect_loop"
    /\ UNCHANGED <<cfgvars, wvars, opt, oracle_calls, sections, nodes_with_content, treevars>>

\* lines 25-76: one iteration, from the oracle call to the offset update
DetectChunk ==
    /\ pc = "detect_loop"
    /\ chunk_idx < Len(chunks)
    /\ LET chunk == chunks[chunk_idx + 1]
       IN  \E answer \in OracleAnswers(chunk, MaxSections - Len(all_sections)) :
              LET found == IF answer.is_list THEN answer.items ELSE <<>>
              IN  /\ oracle_calls' = Append(oracle_calls,
                                             [ chunk |-> chunk,
                                               is_list |-> answer.is_list,
                                               usable |-> UsableCount(answer.items) ])
                  /\ all_sections' =
                        all_sections \o AdjustSections(found, current_char_offset, chunk_idx)
                  /\ current_char_offset' =
                        IF chunk_idx < Len(chunks) - 1
                        THEN current_char_offset + Len(chunk)
                        ELSE current_char_offset
    /\ chunk_idx' = chunk_idx + 1
    /\ UNCHANGED <<cfgvars, wvars, pc, opt, chunks, sections, nodes_with_content, treevars>>

\* a fallback section that spans nothing
DocumentContentEmptySpan(t) ==
    [ title |-> "Document Content", level |-> 1, char_start |-> 0, char_end |-> 0 ]

\* lines 79-85
DocumentContent(t) ==
    [ title |-> "Document Content", level |-> 1, char_start |-> 0, char_end |-> Len(t) ]

\* lines 78-87 and txt_to_tree line 295: the result is bound to `sections`
DetectReturn ==
    /\ pc = "detect_loop"
    /\ chunk_idx >= Len(chunks)
    /\ sections' = IF all_sections = <<>> THEN << DocumentContent(text) >> ELSE all_sections
    /\ pc' = "detected"
    /\ UNCHANGED <<cfgvars, wvars, opt, detvars, nodes_with_content, treevars>>

(***************************************************************************)
(* merge_overlapping_sections.                                             *)
(***************************************************************************)
\* the sort key (x['char_start'], x.get('level', 1)), compared as tuples
SortKeyLess(a, b) ==
    \/ a.char_start < b.char_start
    \/ a.char_start = b.char_start /\ Get(a, "level", 1) < Get(b, "level", 1)

\* x placed after every element whose key is not greater: sorted() is stable
RECURSIVE InsertSorted(_, _)
InsertSorted(q, x) ==
    IF q = <<>> THEN << x >>
    ELSE IF SortKeyLess(x, Head(q)) THEN << x >> \o q
    ELSE << Head(q) >> \o InsertSorted(Tail(q), x)

RECURSIVE SortedSections(_)
SortedSections(q) ==
    IF q = <<>> THEN <<>>
    ELSE InsertSorted(SortedSections(SubSeq(q, 1, Len(q) - 1)), q[Len(q)])

\* a duplicate key that leaves the title out
position_key_without_title(section) ==
    << section.char_start, Get(section, "level", 1), "" >>

\* line 152
position_key(section) ==
    << section.char_start, Get(section, "level", 1), Get(section, "title", "") >>

RECURSIVE DropSeen(_, _)
DropSeen(q, seen_positions) ==
    IF q = <<>> THEN <<>>
    ELSE IF position_key(Head(q)) \in seen_positions
         THEN DropSeen(Tail(q), seen_positions)
         ELSE << Head(q) >> \o DropSeen(Tail(q), seen_positions \cup {position_key(Head(q))})

merge_overlapping_sections(q) == DropSeen(SortedSections(q), {})

\* txt_to_tree line 300
Merge ==
    /\ pc = "detected"
    /\ sections' = merge_overlapping_sections(sections)
    /\ pc' = "merged"
    /\ UNCHANGED <<cfgvars, wvars, opt, detvars, nodes_with_content, treevars>>

(***************************************************************************)
(* extract_section_text.                                                   *)
(***************************************************************************)
\* f'Section {i+1}' for the 0-based index i
DefaultTitle(i) == "Section " \o ToString(i + 1)

\* a materializer that trusts the section's own char_end when it has one
SectionNodeOwnEnd(t, q, k) ==
    LET section == q[k]
        st == Get(section, "char_start", 0)
        en == IF k < Len(q)
              THEN Get(section, "char_end", Get(q[k + 1], "char_start", Len(t)))
              ELSE Get(section, "char_end", Len(t))
    IN  [ title |-> Get(section, "title", DefaultTitle(k - 1)),
          level |-> Get(section, "level", 1),
          char_start |-> st,
          char_end |-> en,
          text |-> Strip(PySlice(t, st, en)) ]

\* lines 171-186 for the 1-based index k (Python's i is k - 1)
SectionNode(t, q, k) ==
    LET section == q[k]
        st == Get(section, "char_start", 0)
        en == IF k < Len(q)
              THEN Get(q[k + 1], "char_start", Get(section, "char_end", Len(t)))
              ELSE Get(section, "char_end", Len(t))
    IN  [ title |-> Get(section, "title", DefaultTitle(k - 1)),
          level |-> Get(section, "level", 1),
          char_start |-> st,
          char_end |-> en,
          text |-> Strip(PySlice(t, st, en)) ]

extract_section_text(t, q) == [ k \in 1..Len(q) |-> SectionNode(t, q, k) ]

\* txt_to_tree line 304
Extract ==
    /\ pc = "merged"
    /\ nodes_with_content' = extract_section_text(text, sections)
    /\ pc' = "extracted"
    /\ UNCHANGED <<cfgvars, wvars, opt, detvars, sections, treevars>>

(***************************************************************************)
(* build_tree_from_txt_nodes.  The tree is a heap of node dicts: object k  *)
(* is the k-th dict the builder created, and a `nodes` list holds the      *)
(* objects it refers to.                                                   *)
(***************************************************************************)
DigitChars == << "0", "1", "2", "3", "4", "5", "6", "7", "8", "9" >>

\* str(n) for n >= 0
RECURSIVE Str(_)
Str(n) == IF n < 10 THEN << DigitChars[n + 1] >>
          ELSE Str(n \div 10) \o << DigitChars[(n % 10) + 1] >>

\* s.zfill(width)
RECURSIVE Zfill(_, _)
Zfill(s, width) == IF Len(s) >= width THEN s ELSE Zfill(<< "0" >> \o s, width)

\* the width of a node_id
NODE_ID_WIDTH == 4

\* an id without the zero padding
NodeIdUnpadded(node_counter) == Str(node_counter)

\* str(node_counter).zfill(4)
NodeId(node_counter) == Zfill(Str(node_counter), NODE_ID_WIDTH)

\* a pop loop that keeps an open node of the same level on the stack
RECURSIVE PopStackStrict(_, _)
PopStackStrict(stack, current_level) ==
    IF stack # <<>> /\ stack[Len(stack)][2] > current_level
    THEN PopStackStrict(SubSeq(stack, 1, Len(stack) - 1), current_level)
    ELSE stack

\* an `if` in place of the `while`: at most one open node is closed
PopStackOnce(stack, current_level) ==
    IF stack # <<>> /\ stack[Len(stack)][2] >= current_level
    THEN SubSeq(stack, 1, Len(stack) - 1)
    ELSE stack

\* lines 218-219: while stack and stack[-1][1] >= current_level: stack.pop()
RECURSIVE PopStack(_, _)
PopStack(stack, current_level) ==
    IF stack # <<>> /\ stack[Len(stack)][2] >= current_level
    THEN PopStack(SubSeq(stack, 1, Len(stack) - 1), current_level)
    ELSE stack

\* lines 200-202
BuildStart == [ heap |-> <<>>, root_nodes |-> <<>>, stack |-> <<>>, node_counter |-> 1 ]

\* lines 205-227: the loop body for one candidate
BuildStep(b, node) ==
    LET current_level == node.level
        obj == Len(b.heap) + 1
        tree_node == [ title |-> node.title,
                       node_id |-> NodeId(b.node_counter),
                       text |-> node.text,
                       char_start |-> node.char_start,
                       char_end |-> node.char_end,
                       nodes |-> <<>> ]
        stack == PopStack(b.stack, current_level)
        heap1 == Append(b.heap, tree_node)
    IN  [ heap |-> IF stack = <<>> THEN heap1
                   ELSE LET parent_node == stack[Len(stack)][1]
                        IN  [ heap1 EXCEPT ![parent_node].nodes = Append(@, obj) ],
          root_nodes |-> IF stack = <<>> THEN Append(b.root_nodes, obj) ELSE b.root_nodes,
          stack |-> Append(stack, << obj, current_level >>),
          node_counter |-> b.node_counter + 1 ]

RECURSIVE BuildLoop(_, _)
BuildLoop(b, node_list) ==
    IF node_list = <<>> THEN b ELSE BuildLoop(BuildStep(b, Head(node_list)), Tail(node_list))

\* the heap and the root list the builder returns
build_tree_from_txt_nodes(node_list) ==
    LET b == BuildLoop(BuildStart, node_list)
    IN  [ heap |-> b.heap, root_nodes |-> b.root_nodes ]

\* txt_to_tree line 308
Build ==
    /\ pc = "extracted"
    /\ LET built == build_tree_from_txt_nodes(nodes_with_content)
       IN  /\ tree' = built.heap
           /\ tree_structure' = built.root_nodes
    /\ pc' = "built"
    /\ UNCHANGED <<cfgvars, wvars, opt, detvars, sections, nodes_with_content, sumvars, result>>

(***************************************************************************)
(* The node annotator (pageindex/utils.py): structure_to_list,             *)
(* write_node_id, format_structure.                                        *)
(***************************************************************************)
\* structure_to_list(structure): the nodes of the forest in pre-order
RECURSIVE PreOrderList(_, _)
PreOrderList(heap, objs) ==
    IF objs = <<>> THEN <<>>
    ELSE << Head(objs) >>
         \o PreOrderList(heap, Get(heap[Head(objs)], "nodes", <<>>))
         \o PreOrderList(heap, Tail(objs))

structure_to_list(heap, structure) == PreOrderList(heap, structure)

\* the 1-based position of x in the sequence q
IndexOf(q, x) == CHOOSE k \in 1..Len(q) : q[k] = x

\* write_node_id(structure): zero-padded sequential ids in pre-order, counted
\* from `first`
write_node_id(heap, structure, first) ==
    LET order == structure_to_list(heap, structure)
    IN  [ k \in 1..Len(heap) |->
            SetKey(heap[k], "node_id", NodeId(first + IndexOf(order, k) - 1)) ]

\* txt_to_tree lines 311-312
WriteNodeId ==
    /\ pc = "built"
    /\ IF opt.if_add_node_id = "yes"
       THEN \E first \in {0, 1} : tree' = write_node_id(tree, tree_structure, first)
       ELSE tree' = tree
    /\ pc' = "annotated"
    /\ UNCHANGED <<cfgvars, wvars, opt, detvars, sections, nodes_with_content,
                   tree_structure, sumvars, result>>

\* format_structure(structure, order): every node keeps the keys of `order`
format_structure(heap, order) == [ k \in 1..Len(heap) |-> reorder_dict(heap[k], order) ]

OrderWithText ==
    {"title", "node_id", "summary", "prefix_summary", "text", "char_start", "char_end", "nodes"}

OrderWithoutText ==
    {"title", "node_id", "summary", "prefix_summary", "char_start", "char_end", "nodes"}

\* txt_to_tree lines 317-321: the text is kept for the summaries
FormatForSummary ==
    /\ pc = "annotated"
    /\ opt.if_add_node_summary = "yes"
    /\ tree' = format_structure(tree, OrderWithText)
    /\ pc' = "summary_call"
    /\ UNCHANGED <<cfgvars, wvars, opt, detvars, sections, nodes_with_content,
                   tree_structure, sumvars, result>>

\* txt_to_tree lines 347-361: no summaries
FormatNoSummary ==
    /\ pc = "annotated"
    /\ opt.if_add_node_summary # "yes"
    /\ tree' = IF opt.if_add_node_text = "yes"
               THEN format_structure(tree, OrderWithText)
               ELSE format_structure(tree, OrderWithoutText)
    /\ result' = [ doc_name |-> "doc" ]
    /\ pc' = "done"
    /\ UNCHANGED <<cfgvars, wvars, opt, detvars, sections, nodes_with_content,
                   tree_structure, sumvars>>

(***************************************************************************)
(* get_node_summary_txt and generate_summaries_for_txt_structure.          *)
(***************************************************************************)
\* what the external summarizer may answer
SummaryStrings == { << "s" >>, << "t" >> }

\* a short-circuit test that also takes a node at the threshold
BelowThresholdInclusive(num_tokens, summary_token_threshold) ==
    num_tokens <= summary_token_threshold

\* line 239: num_tokens < summary_token_threshold
BelowThreshold(num_tokens, summary_token_threshold) ==
    num_tokens < summary_token_threshold

\* lines 249-251: the node list and one coroutine per node
SummariesEnter ==
    /\ pc = "summary_call"
    /\ nodes' = structure_to_list(tree, tree_structure)
    /\ tasks' = [ k \in 1..Len(nodes') |-> "created" ]
    /\ summaries' = [ k \in 1..Len(nodes') |-> << >> ]
    /\ summarizer_calls' = [ k \in 1..Len(nodes') |-> 0 ]
    /\ writes' = [ k \in 1..Len(tree) |-> [ summary |-> 0, prefix_summary |-> 0 ] ]
    /\ widx' = 0
    /\ pc' = "gather"
    /\ UNCHANGED <<cfgvars, wvars, opt, detvars, sections, nodes_with_content,
                   tree, tree_structure, result>>

\* lines 236-242 up to the first suspension of the k-th task; the event loop
\* runs the tasks gather() scheduled in the order they were created
TaskRun(k) ==
    /\ pc = "gather"
    /\ tasks[k] = "created"
    /\ \A j \in 1..(k - 1) : tasks[j] # "created"
    /\ LET node == tree[nodes[k]]
           node_text == Get(node, "text", <<>>)
           num_tokens == count_tokens(node_text)
       IN  IF BelowThreshold(num_tokens, opt.summary_token_threshold)
           THEN /\ tasks' = [ tasks EXCEPT ![k] = "done" ]
                /\ summaries' = [ summaries EXCEPT ![k] = node_text ]
                /\ UNCHANGED summarizer_calls
           ELSE /\ tasks' = [ tasks EXCEPT ![k] = "waiting" ]
                /\ summarizer_calls' = [ summarizer_calls EXCEPT ![k] = @ + 1 ]
                /\ UNCHANGED summaries
    /\ UNCHANGED <<cfgvars, wvars, pc, opt, detvars, sections, nodes_with_content,
                   tree, tree_structure, nodes, writes, widx, result>>

\* an event loop that hands a task its response while later tasks have not
\* yet run their first step
AllStartedNotAwaited == TRUE

\* line 252: gather() schedules every coroutine as a task before the caller
\* suspends, so the first step of each task has run before the event loop
\* delivers any response
AllStarted == \A j \in 1..Len(tasks) : tasks[j] # "created"

\* a write that takes `summary` for every node
SummaryKeyAlwaysSummary(node) == "summary"

\* the key lines 255-258 write for a node
SummaryKey(node) == IF Get(node, "nodes", <<>>) = <<>> THEN "summary" ELSE "prefix_summary"

\* a task that stores its answer in the node as soon as it arrives, without
\* waiting for the other tasks
SummarizerReturnAndWrite(k) ==
    /\ pc = "gather"
    /\ tasks[k] = "waiting"
    /\ AllStarted
    /\ \E s \in SummaryStrings :
          /\ summaries' = [ summaries EXCEPT ![k] = s ]
          /\ tree' = [ tree EXCEPT ![nodes[k]] = SetKey(@, SummaryKey(@), s) ]
    /\ tasks' = [ tasks EXCEPT ![k] = "done" ]
    /\ UNCHANGED <<cfgvars, wvars, pc, opt, detvars, sections, nodes_with_content,
                   tree_structure, nodes, summarizer_calls, writes, widx, result>>

\* generate_node_summary returns for the k-th task; answers are handled after
\* the first step of every task, in any order
SummarizerReturn(k) ==
    /\ pc = "gather"
    /\ tasks[k] = "waiting"
    /\ AllStarted
    /\ \E s \in SummaryStrings : summaries' = [ summaries EXCEPT ![k] = s ]
    /\ tasks' = [ tasks EXCEPT ![k] = "done" ]
    /\ UNCHANGED <<cfgvars, wvars, pc, opt, detvars, sections, nodes_with_content,
                   tree, tree_structure, nodes, summarizer_calls, writes, widx, result>>

\* generate_node_summary raises for the k-th task
SummarizerRaise(k) ==
    /\ pc = "gather"
    /\ tasks[k] = "waiting"
    /\ AllStarted
    /\ tasks' = [ tasks EXCEPT ![k] = "failed" ]
    /\ UNCHANGED <<cfgvars, wvars, pc, opt, detvars, sections, nodes_with_content,
                   tree, tree_structure, nodes, summaries, summarizer_calls, writes,
                   widx, result>>

\* line 252: gather() raises the first exception to its caller, which has no
\* handler: generate_summaries_for_txt_structure and txt_to_tree raise
GatherRaise ==
    /\ pc = "gather"
    /\ \E k \in 1..Len(tasks) : tasks[k] = "failed"
    /\ pc' = "raised"
    /\ UNCHANGED <<cfgvars, wvars, opt, detvars, sections, nodes_with_content,
                   tree, tree_structure, sumvars, result>>

\* line 252: every task is done, gather() returns the results in task order
GatherReturn ==
    /\ pc = "gather"
    /\ \A k \in 1..Len(tasks) : tasks[k] = "done"
    /\ widx' = 0
    /\ pc' = "write"
    /\ UNCHANGED <<cfgvars, wvars, opt, detvars, sections, nodes_with_content,
                   tree, tree_structure, nodes, tasks, summaries, summarizer_calls,
                   writes, result>>

\* lines 254-258: one iteration of the loop over zip(nodes, summaries)
WriteSummary ==
    /\ pc = "write"
    /\ widx < Len(nodes)
    /\ LET obj == nodes[widx + 1]
           key == SummaryKey(tree[obj])
       IN  /\ tree' = [ tree EXCEPT ![obj] = SetKey(@, key, summaries[widx + 1]) ]
           /\ writes' = [ writes EXCEPT ![obj][key] = @ + 1 ]
    /\ widx' = widx + 1
    /\ UNCHANGED <<cfgvars, wvars, pc, opt, detvars, sections, nodes_with_content,
                   tree_structure, nodes, tasks, summaries, summarizer_calls, result>>

\* line 260
SummariesReturn ==
    /\ pc = "write"
    /\ widx >= Len(nodes)
    /\ pc' = "summarized"
    /\ UNCHANGED <<cfgvars, wvars, opt, detvars, sections, nodes_with_content,
                   tree, tree_structure, sumvars, result>>

\* txt_to_tree lines 331-361
Finish ==
    /\ pc = "summarized"
    /\ tree' = IF opt.if_add_node_text = "no"
               THEN format_structure(tree, OrderWithoutText)
               ELSE tree
    /\ result' = IF opt.if_add_doc_description = "yes"
                 THEN [ doc_name |-> "doc", doc_description |-> "description" ]
                 ELSE [ doc_name |-> "doc" ]
    /\ pc' = "done"
    /\ UNCHANGED <<cfgvars, wvars, opt, detvars, sections, nodes_with_content,
                   tree_structure, sumvars>>

(***************************************************************************)
(* Initial states and specifications.                                      *)
(***************************************************************************)
MaxInputTokens == 600   \* the max_input_tokens given when sub-chunking is on
LongDocLen == 650       \* the length of the document that needs two sub-chunks
TokenThreshold == 2     \* the summary_token_threshold given
SmallWindow == 2        \* a window_size smaller than the short document
MaxNodes == 3           \* candidates handed to the tree builder
MaxTreeLevel == 3       \* the levels of those candidates

\* the defaults of txt_to_tree's window_size and overlap
DEFAULT_WINDOW_SIZE == 5000
DEFAULT_OVERLAP == 500

\* (if_add_node_summary, if_add_node_id, if_add_node_text, if_add_doc_description)
OptionProfiles ==
    { << "yes", "yes", "no", "no" >>, << "yes", "no", "yes", "yes" >>,
      << "no", "yes", "yes", "no" >>, << "no", "no", "no", "no" >> }

\* max_input_tokens is 0 for None: the code tests its truth value
Options(max_tokens) ==
    { [ max_input_tokens |-> m,
        summary_token_threshold |-> TokenThreshold,
        if_add_node_summary |-> p[1],
        if_add_node_id |-> p[2],
        if_add_node_text |-> p[3],
        if_add_doc_description |-> p[4] ] : m \in max_tokens, p \in OptionProfiles }

WindowIdle == wpc = "idle" /\ start = 0 /\ windows = <<>>

DetectIdle ==
    /\ chunks = <<>>
    /\ chunk_idx = 0
    /\ current_char_offset = 0
    /\ all_sections = <<>>
    /\ oracle_calls = <<>>

TreeIdle ==
    /\ tree = <<>>
    /\ tree_structure = <<>>
    /\ nodes = <<>>
    /\ tasks = <<>>
    /\ summaries = <<>>
    /\ widx = 0
    /\ summarizer_calls = <<>>
    /\ writes = <<>>
    /\ result = [ doc_name |-> "" ]

PipelineIdle ==
    /\ pc = "idle"
    /\ opt = [ max_input_tokens |-> 0 ]
    /\ DetectIdle
    /\ sections = <<>>
    /\ nodes_with_content = <<>>
    /\ TreeIdle

\* the documents of the pipeline: empty, short, and one that needs sub-chunks
ShortDoc == << "a", " ", "b" >>
LongDoc == [ i \in 1..LongDocLen |-> "a" ]

\* txt_to_tree has read the file (lines 286-291)
Init ==
    /\ \/ text = <<>> /\ opt \in Options({0})
       \/ text = ShortDoc /\ opt \in Options({0, MaxInputTokens})
       \/ text = LongDoc /\ opt \in Options({MaxInputTokens})
    /\ \/ window_size = SmallWindow /\ overlap = 0 /\ opt.if_add_node_id = "yes"
       \/ /\ window_size = DEFAULT_WINDOW_SIZE
          /\ overlap = DEFAULT_OVERLAP
          /\ opt.if_add_node_id = "no"
    /\ WindowIdle
    /\ pc = "detect_call"
    /\ DetectIdle
    /\ sections = <<>>
    /\ nodes_with_content = <<>>
    /\ TreeIdle

NextTree ==
    \/ Build
    \/ WriteNodeId
    \/ FormatForSummary
    \/ FormatNoSummary
    \/ SummariesEnter
    \/ \E k \in 1..Len(tasks) : TaskRun(k)
    \/ \E k \in 1..Len(tasks) : SummarizerReturn(k)
    \/ \E k \in 1..Len(tasks) : SummarizerRaise(k)
    \/ GatherRaise
    \/ GatherReturn
    \/ WriteSummary
    \/ SummariesReturn
    \/ Finish

Next == DetectEnter \/ DetectChunk \/ DetectReturn \/ Merge \/ Extract \/ NextTree

Spec == Init /\ [][Next]_vars

\* the candidate lists given to the tree builder: any levels, a text one
\* token below the threshold or at the threshold
NodeTexts ==
    { [ i \in 1..(TokenThreshold - 1) |-> "a" ], [ i \in 1..TokenThreshold |-> "a" ] }

CandidateLists ==
    UNION { { [ k \in 1..n |-> [ title |-> "A", level |-> lv[k], char_start |-> k - 1,
                                 char_end |-> k, text |-> tx[k] ] ] :
                lv \in [ 1..n -> 1..MaxTreeLevel ], tx \in [ 1..n -> NodeTexts ] } :
            n \in 0..MaxNodes }

\* extract_section_text has returned (txt_to_tree line 304)
InitTree ==
    /\ text = <<>>
    /\ window_size = DEFAULT_WINDOW_SIZE
    /\ overlap = DEFAULT_OVERLAP
    /\ WindowIdle
    /\ pc = "extracted"
    /\ opt \in Options({0})
    /\ DetectIdle
    /\ sections = <<>>
    /\ nodes_with_content \in CandidateLists
    /\ TreeIdle

SpecTree == InitTree /\ [][NextTree]_vars

\* the candidate lists of the builder alone: longer lists, any levels
MaxBuildLen == 5        \* candidates in such a list

BuildLists ==
    UNION { { [ k \in 1..n |-> [ title |-> "A", level |-> lv[k], char_start |-> k - 1,
                                 char_end |-> k, text |-> << "a" >> ] ] :
                lv \in [ 1..n -> 1..MaxTreeLevel ] } :
            n \in 0..MaxBuildLen }

\* extract_section_text has returned (txt_to_tree line 304)
InitBuild ==
    /\ text = <<>>
    /\ window_size = DEFAULT_WINDOW_SIZE
    /\ overlap = DEFAULT_OVERLAP
    /\ WindowIdle
    /\ pc = "extracted"
    /\ opt \in Options({0})
    /\ opt.if_add_node_summary = "no" /\ opt.if_add_node_id = "no"
    /\ DetectIdle
    /\ sections = <<>>
    /\ nodes_with_content \in BuildLists
    /\ TreeIdle

NextBuild == Build

SpecBuild == InitBuild /\ [][NextBuild]_vars

\* the section lists given to the reconciler: any order, duplicates, dicts
\* without a level or a title
MaxListLen == 3         \* sections in such a list
MaxStart == 2           \* their char_start is in 0..MaxStart

SectionDicts ==
    [ title : Titles, level : OracleLevels, char_start : 0..MaxStart,
      char_end : {MaxStart + 1} ]
    \cup [ title : Titles, char_start : {0}, char_end : {MaxStart + 1} ]
    \cup [ level : OracleLevels, char_start : {0}, char_end : {MaxStart + 1} ]

\* detect_semantic_sections has returned all_sections (txt_to_tree line 295)
InitSections ==
    /\ text = [ i \in 1..(MaxStart + 1) |-> "a" ]
    /\ window_size = DEFAULT_WINDOW_SIZE
    /\ overlap = DEFAULT_OVERLAP
    /\ WindowIdle
    /\ pc = "detected"
    /\ opt \in Options({0})
    /\ opt.if_add_node_summary = "no" /\ opt.if_add_node_id = "no"
    /\ chunks = << text >>
    /\ chunk_idx = 1
    /\ current_char_offset = 0
    /\ all_sections \in SeqsUpTo(SectionDicts, MaxListLen)
    /\ oracle_calls = <<>>
    /\ sections = all_sections
    /\ nodes_with_content = <<>>
    /\ TreeIdle

NextSections == Merge \/ Extract

SpecSections == InitSections /\ [][NextSections]_vars


\* the section lists given to the materializer through the reconciler: every
\* section has a char_start (line 144 subscripts it); its own char_end is
\* anywhere in the document, before or after the next section's start, or unset
SpanDicts ==
    [ title : {"A"}, level : {1}, char_start : 0..MaxStart, char_end : 0..(MaxStart + 1) ]
    \cup [ title : {"A"}, level : {1}, char_start : 0..MaxStart ]

\* the caller holds a section list (txt_to_tree line 295)
InitSpans ==
    /\ text = [ i \in 1..(MaxStart + 1) |-> "a" ]
    /\ window_size = DEFAULT_WINDOW_SIZE
    /\ overlap = DEFAULT_OVERLAP
    /\ WindowIdle
    /\ pc = "detected"
    /\ opt \in Options({0})
    /\ opt.if_add_node_summary = "no" /\ opt.if_add_node_id = "no"
    /\ chunks = << text >>
    /\ chunk_idx = 1
    /\ current_char_offset = 0
    /\ all_sections \in SeqsUpTo(SpanDicts, MaxListLen)
    /\ oracle_calls = <<>>
    /\ sections = all_sections
    /\ nodes_with_content = <<>>
    /\ TreeIdle

NextSpans == Merge \/ Extract

SpecSpans == InitSpans /\ [][NextSpans]_vars

(***************************************************************************)
(* The documents of the windowing specification.                           *)
(***************************************************************************)
RECURSIVE StringsOfLen(_)
StringsOfLen(n) ==
    IF n = 0 THEN { <<>> }
    ELSE { Append(s, c) : s \in StringsOfLen(n - 1), c \in Alphabet }

ShortTexts == UNION { StringsOfLen(n) : n \in 0..MaxTextLen }

\* a long document with one sentence ending, ". ", at 0-based offset p
LongText(p) ==
    [ i \in 1..LongLen |-> IF i = p + 1 THEN "." ELSE IF i = p + 2 THEN " " ELSE "a" ]

LongTexts == { LongText(p) : p \in {LongWindow - SENTENCE_LOOKBACK - 2,
                                    LongWindow - SENTENCE_LOOKBACK + 2,
                                    LongWindow - 2} }

InitWindow ==
    /\ \/ /\ text \in ShortTexts
          /\ window_size \in 1..MaxWindowSize
          /\ overlap \in (-1)..MaxOverlap
       \/ /\ text \in LongTexts
          /\ window_size = LongWindow
          /\ overlap \in {0, LongOverlap}
    /\ wpc = "call"
    /\ start = 0
    /\ windows = <<>>
    /\ PipelineIdle

NextWindow == WindowSingle \/ WindowEnter \/ WindowIterate \/ WindowLoopExit

SpecWindow == InitWindow /\ [][NextWindow]_vars

(***************************************************************************)
(* Windowing claims.                                                       *)
(***************************************************************************)
\* the precondition of the windowing contract: window_size > overlap >= 0
WindowPre == window_size > overlap /\ overlap >= 0

\* C1: for a non-empty text and window_size > overlap >= 0, every emitted
\* window has 0 <= start < end <= len(text) and end - start <= window_size,
\* adjacent windows overlap by at most `overlap` characters with no gap, the
\* first window starts at 0 and, once the function has returned, the last
\* window ends at len(text).  (The claim is stated for non-empty texts: the
\* single window of the empty text is [0, 0).)
C1_WindowsCoverText ==
    (WindowPre /\ Len(text) > 0) =>
        /\ \A i \in 1..Len(windows) :
              /\ 0 <= windows[i].start
              /\ windows[i].start < windows[i].end
              /\ windows[i].end <= Len(text)
              /\ windows[i].end - windows[i].start <= window_size
        /\ \A i \in 1..(Len(windows) - 1) :
              /\ windows[i + 1].start <= windows[i].end
              /\ windows[i].end - windows[i + 1].start <= overlap
        /\ Len(windows) > 0 => windows[1].start = 0
        /\ wpc = "done" =>
              /\ Len(windows) > 0
              /\ windows[Len(windows)].end = Len(text)

\* C2: whenever overlap < window_size (and overlap >= 0), each iteration of
\* the windowing loop starts strictly after the previous one.
C2_StartStrictlyAdvances ==
    [][(WindowPre /\ wpc = "loop" /\ wpc' = "loop") => start' > start]_vars

(***************************************************************************)
(* Pipeline claims.                                                        *)
(***************************************************************************)
\* window_text_with_overlap as a function, its loop followed for MaxWindows windows
window_text_with_overlap(t, ws, ov) ==
    IF Len(t) <= ws THEN << Window(t, 0, Len(t)) >> ELSE WindowLoop(t, ws, ov, 0, MaxWindows)

\* detect_semantic_sections has returned to txt_to_tree
AfterDetection == pc \notin {"idle", "detect_call", "detect_loop"}

\* the tree has been built
AfterBuild == pc \notin {"idle", "detect_call", "detect_loop", "detected", "merged", "extracted"}

\* C3: in txt_to_tree, once detection is over and no sub-chunking is
\* configured, the oracle has been called once per window of the Windower,
\* in order, each time with that window's text.
C3_OracleCalledPerWindow ==
    (AfterDetection /\ opt.max_input_tokens = 0) =>
        LET w == window_text_with_overlap(text, window_size, overlap)
        IN  /\ Len(oracle_calls) = Len(w)
            /\ \A k \in 1..Len(w) : oracle_calls[k].chunk = w[k].text

\* C4: every section detect_semantic_sections returns has offsets inside
\* the document, 0 <= char_start <= char_end <= len(text) (the oracle's
\* offsets are valid positions of the sub-chunk it was given).
C4_GlobalOffsetsInsideDocument ==
    pc = "detected" =>
        \A i \in 1..Len(sections) :
            /\ 0 <= sections[i].char_start
            /\ sections[i].char_start <= sections[i].char_end
            /\ sections[i].char_end <= Len(text)

\* no answer of the oracle held a section with both offsets
NoUsableSection == \A c \in 1..Len(oracle_calls) : oracle_calls[c].usable = 0

\* C5: detect_semantic_sections never returns an empty list; when no
\* sub-chunk yielded a usable section it returns exactly one section, level 1,
\* from 0 to len(text), and the tree built from it is one root without
\* children spanning the whole text.
C5_NeverEmptyFallback ==
    /\ AfterDetection => sections # <<>>
    /\ (AfterDetection /\ NoUsableSection) =>
          /\ Len(sections) = 1
          /\ sections[1].level = 1
          /\ sections[1].char_start = 0
          /\ sections[1].char_end = Len(text)
    /\ (AfterBuild /\ NoUsableSection) =>
          /\ tree_structure = << 1 >>
          /\ Len(tree) = 1
          /\ Get(tree[1], "nodes", <<>>) = <<>>
          /\ tree[1].char_start = 0
          /\ tree[1].char_end = Len(text)

\* C5 witness: two sub-chunks, neither answer usable (the first is no array), and
\* the one-root tree is built for the non-empty document
C5_Witness ==
    /\ pc = "built"
    /\ Len(oracle_calls) = 2
    /\ NoUsableSection
    /\ ~oracle_calls[1].is_list
    /\ oracle_calls[2].is_list
    /\ tree_structure = << 1 >>
    /\ tree[1].char_end = Len(text)
    /\ Len(text) > 0

(***************************************************************************)
(* Reconciler claims.                                                      *)
(***************************************************************************)
\* the key (char_start, level, title) of a section, an absent level read as 1
\* and an absent title as ""
KeyOf(section) ==
    << section.char_start,
       IF Has(section, "level") THEN section.level ELSE 1,
       IF Has(section, "title") THEN section.title ELSE "" >>

SourceLevel(k) == nodes_with_content[k].level

\* the objects below object k in the tree
RECURSIVE Descendants(_, _)
Descendants(heap, k) ==
    LET kids == Get(heap[k], "nodes", <<>>)
    IN  { kids[i] : i \in 1..Len(kids) }
        \cup UNION { Descendants(heap, kids[i]) : i \in 1..Len(kids) }

\* C7: in the built tree every descendant of a node has a source level
\* strictly greater than the node's own.
C7_DescendantsDeeper ==
    AfterBuild =>
        \A k \in 1..Len(tree) : \A d \in Descendants(tree, k) : SourceLevel(d) > SourceLevel(k)

\* C7 witness: non-monotonic, skipped levels <<2, 1, 3>>: the level-3 candidate
\* is the child of the level-1 candidate, the level-2 candidate is a root
C7_Witness ==
    /\ pc = "built"
    /\ Len(nodes_with_content) = 3
    /\ SourceLevel(1) = 2 /\ SourceLevel(2) = 1 /\ SourceLevel(3) = 3
    /\ tree_structure = << 1, 2 >>
    /\ tree[2].nodes = << 3 >>

\* the steps of generate_summaries_for_txt_structure
InSummaries == pc \in {"summary_call", "gather", "write"}

\* C8: the node_ids the builder assigns are "0001", "0002", ... in candidate
\* order, pairwise distinct, in the pre-order of the tree; and no step of the
\* summary population changes a node_id.
C8_NodeIdsSequentialStable ==
    /\ [](pc = "built" =>
            /\ \A k \in 1..Len(tree) :
                  /\ Len(tree[k].node_id) = 4
                  /\ tree[k].node_id =
                        << "0", "0", "0", DigitChars[k + 1] >>
                  /\ tree[k].title = nodes_with_content[k].title
                  /\ tree[k].char_start = nodes_with_content[k].char_start
            /\ \A j, k \in 1..Len(tree) : j # k => tree[j].node_id # tree[k].node_id
            /\ structure_to_list(tree, tree_structure) = [ k \in 1..Len(tree) |-> k ])
    /\ [][InSummaries =>
            /\ Len(tree') = Len(tree)
            /\ \A k \in 1..Len(tree) : tree'[k].node_id = tree[k].node_id]_vars

\* C8 witness: three nodes, ids kept as built, summaries written
C8_Witness ==
    /\ pc = "summarized"
    /\ opt.if_add_node_id = "no"
    /\ Len(tree) = 3
    /\ tree[3].node_id = << "0", "0", "0", "3" >>
    /\ tree[1].nodes = << 2 >>
    /\ Has(tree[1], "prefix_summary")
    /\ Has(tree[3], "summary")

\* the text of the node of the k-th coroutine
TaskText(k) == tree[nodes[k]].text

\* C9 as stated: after summarization a node below the threshold has made no
\* summarizer call and its `summary` equals its text; a node at or above the
\* threshold has made exactly one call.
C9_ShortNodeSummaryIsText ==
    pc = "summarized" =>
        \A k \in 1..Len(nodes) :
            IF count_tokens(TaskText(k)) < opt.summary_token_threshold
            THEN /\ summarizer_calls[k] = 0
                 /\ Has(tree[nodes[k]], "summary")
                 /\ tree[nodes[k]].summary = TaskText(k)
            ELSE summarizer_calls[k] = 1

\* C9 amended: a node below the threshold never makes a summarizer call, and
\* after summarization its result field (`summary` for a node without
\* children, `prefix_summary` for a node with children) equals its text; a
\* node at or above the threshold makes at most one call, and exactly one
\* once its coroutine has run.
C9_ShortNodeResultIsText ==
    (pc \in {"gather", "write", "summarized", "raised"}) =>
        \A k \in 1..Len(nodes) :
            LET node == tree[nodes[k]]
                field == IF Get(node, "nodes", <<>>) = <<>> THEN "summary" ELSE "prefix_summary"
            IN  IF count_tokens(TaskText(k)) < opt.summary_token_threshold
                THEN /\ summarizer_calls[k] = 0
                     /\ pc = "summarized" => (Has(node, field) /\ node[field] = TaskText(k))
                ELSE /\ summarizer_calls[k] <= 1
                     /\ tasks[k] # "created" => summarizer_calls[k] = 1

\* C9 witness: a parent below the threshold got its text as prefix_summary,
\* its child at the threshold got the summarizer's answer
C9_Witness ==
    /\ pc = "summarized"
    /\ Len(nodes) = 2
    /\ tree[1].nodes = << 2 >>
    /\ count_tokens(tree[1].text) < opt.summary_token_threshold
    /\ tree[1].prefix_summary = tree[1].text
    /\ ~Has(tree[1], "summary")
    /\ count_tokens(tree[2].text) = opt.summary_token_threshold
    /\ summarizer_calls = << 0, 1 >>
    /\ tree[2].summary \in SummaryStrings

\* what generate_summaries_for_txt_structure must leave alone in a node
Frame(node) ==
    << node.title, node.node_id, node.text, node.char_start, node.char_end,
       Get(node, "nodes", <<>>) >>

\* C10: generate_summaries_for_txt_structure assigns each node's result
\* exactly once, to `summary` when the node has no children and to
\* `prefix_summary` otherwise, never both; no step of it changes a node's
\* title, node_id, text, char_start, char_end or child list, nor the root list.
C10_OneWritePerNodeFrameKept ==
    /\ [](pc \in {"write", "summarized"} =>
            \A k \in 1..Len(tree) :
                LET leaf == Get(tree[k], "nodes", <<>>) = <<>>
                    done == pc = "summarized" \/ IndexOf(nodes, k) <= widx
                IN  /\ writes[k].summary = (IF done /\ leaf THEN 1 ELSE 0)
                    /\ writes[k].prefix_summary = (IF done /\ ~leaf THEN 1 ELSE 0)
                    /\ Has(tree[k], "summary") <=> (done /\ leaf)
                    /\ Has(tree[k], "prefix_summary") <=> (done /\ ~leaf)
                    /\ (done /\ leaf) => tree[k].summary = summaries[IndexOf(nodes, k)]
                    /\ (done /\ ~leaf) => tree[k].prefix_summary = summaries[IndexOf(nodes, k)])
    /\ [][InSummaries =>
            /\ tree_structure' = tree_structure
            /\ Len(tree') = Len(tree)
            /\ \A k \in 1..Len(tree) : Frame(tree'[k]) = Frame(tree[k])]_vars

\* C10 witness: a root with two children and all three results written
C10_Witness ==
    /\ pc = "summarized"
    /\ Len(tree) = 3
    /\ tree[1].nodes = << 2, 3 >>
    /\ writes = << [ summary |-> 0, prefix_summary |-> 1 ],
                   [ summary |-> 1, prefix_summary |-> 0 ],
                   [ summary |-> 1, prefix_summary |-> 0 ] >>
    /\ tree[1].prefix_summary \in SummaryStrings
    /\ tree[3].summary = tree[3].text

\* the tasks whose node needs the external summarizer
NeedsSummarizer(k) == ~BelowThreshold(count_tokens(TaskText(k)), opt.summary_token_threshold)

\* the requests issued and not yet answered
Outstanding == { k \in 1..Len(tasks) : tasks[k] = "waiting" }

\* C11: once the response of any summarization request has been handled
\* (successfully or not), the request of every node that needs the external
\* summarizer has been issued, exactly once; and when
\* generate_summaries_for_txt_structure is past gather() (writing or
\* returned), every task is done, no request is outstanding and every node
\* that needed the summarizer holds the summarizer's answer.
C11_AllIssuedBeforeAnyResponse ==
    /\ (pc \in {"gather", "raised"} /\
            \E k \in 1..Len(tasks) : NeedsSummarizer(k) /\ tasks[k] \in {"done", "failed"}) =>
          \A j \in 1..Len(tasks) :
              NeedsSummarizer(j) => (summarizer_calls[j] = 1 /\ tasks[j] # "created")
    /\ (pc \in {"write", "summarized"}) =>
          /\ Outstanding = {}
          /\ \A k \in 1..Len(tasks) :
                /\ tasks[k] = "done"
                /\ NeedsSummarizer(k) =>
                      (summarizer_calls[k] = 1 /\ summaries[k] \in SummaryStrings)

\* C11 witness: three nodes need the summarizer; the second request has been
\* answered while the first and the third are still outstanding
C11_Witness ==
    /\ pc = "gather"
    /\ Len(tasks) = 3
    /\ \A k \in 1..3 : NeedsSummarizer(k)
    /\ tasks = << "waiting", "done", "waiting" >>
    /\ summarizer_calls = << 1, 1, 1 >>
    /\ summaries[2] \in SummaryStrings

\* how often object i occurs in a list of objects
Occurrences(objs, i) == Cardinality({ n \in 1..Len(objs) : objs[n] = i })

\* the candidates before candidate i with a strictly smaller level
Shallower(i) == { j \in 1..(i - 1) : SourceLevel(j) < SourceLevel(i) }

\* the levels of the candidate list
SourceLevels == [ k \in 1..Len(nodes_with_content) |-> SourceLevel(k) ]

\* C12: in the built tree, node i is candidate i; its parent is the nearest
\* preceding candidate with a strictly smaller level, and it is a root exactly
\* when there is no such candidate; every candidate occurs exactly once in the
\* tree; levels <<1, 2, 2, 1, 3>> give two roots, the first with the two
\* level-2 children and the second with the level-3 child.
C12_ParentIsNearestShallower ==
    pc = "built" =>
        /\ Len(tree) = Len(nodes_with_content)
        /\ \A i \in 1..Len(tree) :
              /\ tree[i].char_start = nodes_with_content[i].char_start
              /\ Occurrences(tree_structure, i)
                    + Cardinality({ p \in 1..Len(tree) : Occurrences(tree[p].nodes, i) > 0 }) = 1
              /\ \A p \in 1..Len(tree) : Occurrences(tree[p].nodes, i) <= 1
              /\ Occurrences(tree_structure, i) = 1 <=> Shallower(i) = {}
              /\ Shallower(i) # {} =>
                    Occurrences(tree[SetMax(Shallower(i))].nodes, i) = 1
        /\ SourceLevels = << 1, 2, 2, 1, 3 >> =>
              /\ tree_structure = << 1, 4 >>
              /\ tree[1].nodes = << 2, 3 >>
              /\ tree[4].nodes = << 5 >>
              /\ tree[2].nodes = <<>> /\ tree[3].nodes = <<>> /\ tree[5].nodes = <<>>

\* C12 witness: the tree of the levels <<1, 2, 2, 1, 3>> has been built
C12_Witness ==
    /\ pc = "built"
    /\ SourceLevels = << 1, 2, 2, 1, 3 >>
    /\ Len(tree_structure) = 2
    /\ Len(tree[1].nodes) = 2
    /\ tree[4].nodes = << 5 >>

(***************************************************************************)
(* Materializer claim.                                                     *)
(***************************************************************************)
\* C13: the node of section i starts at the section's char_start; when
\* section i has a successor the node ends at the char_start of section
\* i + 1, whatever the section's own char_end; the node of the last section
\* ends at its own char_end, or at len(text) when it has none; so the spans
\* of consecutive nodes of a reconciled list are contiguous, do not overlap,
\* and every node but the last has char_start <= char_end.
C13_EndIsNextStart ==
    pc = "extracted" =>
        /\ Len(nodes_with_content) = Len(sections)
        /\ \A i \in 1..Len(sections) :
              /\ nodes_with_content[i].char_start = sections[i].char_start
              /\ i < Len(sections) =>
                    /\ nodes_with_content[i].char_end = sections[i + 1].char_start
                    /\ nodes_with_content[i].char_end = nodes_with_content[i + 1].char_start
                    /\ nodes_with_content[i].char_start <= nodes_with_content[i].char_end
              /\ i = Len(sections) =>
                    nodes_with_content[i].char_end =
                        (IF Has(sections[i], "char_end") THEN sections[i].char_end ELSE Len(text))

\* C13 witness: the first section's own char_end lies beyond the start of
\* the second and is overridden by it; the second, last, section has no
\* char_end and ends at len(text)
C13_Witness ==
    /\ pc = "extracted"
    /\ Len(sections) = 2
    /\ Has(sections[1], "char_end")
    /\ sections[1].char_end > sections[2].char_start
    /\ sections[1].char_start < sections[2].char_start
    /\ ~Has(sections[2], "char_end")
    /\ nodes_with_content[1].char_end = sections[2].char_start
    /\ nodes_with_content[2].char_end = Len(text)

\* a summarization request of the fan-out has failed
SomeRequestFailed == \E k \in 1..Len(tasks) : tasks[k] = "failed"

\* C14: once a summarization request has failed,
\* generate_summaries_for_txt_structure never reaches its write loop nor
\* returns: it is still in gather() or has raised to its caller, and no result
\* is produced; no node holds a `summary` or a `prefix_summary` and none has
\* been written, also not for the nodes whose own request was answered; and no
\* step taken with a failed request changes the tree or the root list.
C14_FailureIsFatalNothingWritten ==
    /\ [](SomeRequestFailed =>
            /\ pc \in {"gather", "raised"}
            /\ result = [ doc_name |-> "" ]
            /\ Len(writes) = Len(tree)
            /\ \A k \in 1..Len(tree) :
                  /\ ~Has(tree[k], "summary")
                  /\ ~Has(tree[k], "prefix_summary")
                  /\ writes[k] = [ summary |-> 0, prefix_summary |-> 0 ])
    /\ [](pc = "raised" => SomeRequestFailed)
    /\ [][(SomeRequestFailed \/ SomeRequestFailed') =>
            /\ tree' = tree
            /\ tree_structure' = tree_structure]_vars

\* C14 witness: the first request was answered, the second failed, the
\* function has raised and the first node holds no summary
C14_Witness ==
    /\ pc = "raised"
    /\ Len(tasks) = 2
    /\ tree[1].nodes = << 2 >>
    /\ NeedsSummarizer(1)
    /\ tasks = << "done", "failed" >>
    /\ summaries[1] \in SummaryStrings
    /\ ~Has(tree[1], "prefix_summary")
    /\ ~Has(tree[2], "summary")

====
